---------------------------- MODULE Spec2Model ----------------------------
(***************************************************************************)
(* The two scripts of the repository as one state machine.                 *)
(*                                                                         *)
(*   scripts/fetch_risk_barometer.py   main() calls the four barometer     *)
(*       functions in a fixed order; each fetches a baseline price series, *)
(*       evaluates five signals (each in its own try/except), sums the     *)
(*       points and maps the score to a level.                             *)
(*   scripts/fetch_market_data.py      main() fetches a snapshot for each  *)
(*       of nine symbols and exits 1 when none succeeded.                  *)
(*                                                                         *)
(* Representation.                                                         *)
(*   - Python str is a TLA+ string (Len, \o and SubSeq act on strings).    *)
(*   - Python float/int prices are integers; every quotient the code       *)
(*     compares is an exact rational [n, d] (d > 0), so a threshold test   *)
(*     is decided exactly.  stdev/mean is compared through its square.     *)
(*   - A computation that may raise returns [exc |-> message] or           *)
(*     [val |-> value].                                                    *)
(*   - A Python value whose type varies at run time (the 'triggered'       *)
(*     field) is the string of its repr: "True", "False", "None", "0.0".   *)
(*   - The text of a formatted number is not modelled: the detail of a     *)
(*     normal signal record is the f-string's template.  The detail of a   *)
(*     fallback record is built from the exception message as the code     *)
(*     builds it.                                                          *)
(*   - The remote endpoint is the environment: each request is answered    *)
(*     by a failure or by one chart of a small family, chosen anew for     *)
(*     every request.                                                      *)
(***************************************************************************)
EXTENDS Integers, Sequences, FiniteSets, TLC

(***************************************************************************)
(* Bounds of the exploration.                                              *)
(***************************************************************************)
\* The longest message of a failing request has 50 + MaxOver characters.
MaxOver == 1
\* The helper functions are called on their own with series of at most MaxLen
\* points whose closes are in 1..MaxClose, and with response arrays of at
\* most MaxLen entries whose timestamps are in 1..MaxLen.
MaxLen == 3
MaxClose == 3

(***************************************************************************)
(* Python helpers.                                                         *)
(***************************************************************************)
Min(a, b) == IF a < b THEN a ELSE b
Max(a, b) == IF a > b THEN a ELSE b

Raise(msg) == [exc |-> msg]
Return(v) == [val |-> v]
IsExc(r) == "exc" \in DOMAIN r
\* Evaluation in sequence: an exception raised by r skips what follows it.
Bind(r, f(_)) == IF IsExc(r) THEN r ELSE f(r.val)

\* s[:k] of a str
StrPrefix(s, k) == SubSeq(s, 1, Min(k, Len(s)))

\* Messages of the exceptions the interpreter and the statistics module raise.
IndexError == "list index out of range"
ZeroDivisionError == "float division by zero"
StatisticsError == "stdev requires at least two data points"

\* l[-k:] of a list
LastN(l, k) == SubSeq(l, Max(1, Len(l) - k + 1), Len(l))

\* l[-k] of a list: the k-th element from the end, IndexError when there is none
FromEnd(l, k) == IF k <= Len(l) THEN Return(l[Len(l) - k + 1]) ELSE Raise(IndexError)

\* l[::k] of a list
EveryKth(l, k) == [i \in 1..((Len(l) + k - 1) \div k) |-> l[(i - 1) * k + 1]]

\* [price for _, price in history]
Prices(history) == [i \in 1..Len(history) |-> history[i][2]]

\* sum(s[lo..hi]), max and min, by halves: the evaluation stays shallow on
\* long lists
RECURSIVE SumRange(_, _, _)
SumRange(s, lo, hi) ==
    IF lo > hi THEN 0
    ELSE IF lo = hi THEN s[lo]
    ELSE LET mid == (lo + hi) \div 2
         IN  SumRange(s, lo, mid) + SumRange(s, mid + 1, hi)
SumSeq(s) == SumRange(s, 1, Len(s))

RECURSIVE MaxRange(_, _, _)
MaxRange(s, lo, hi) ==
    IF lo = hi THEN s[lo]
    ELSE LET mid == (lo + hi) \div 2
         IN  Max(MaxRange(s, lo, mid), MaxRange(s, mid + 1, hi))
MaxSeq(s) == MaxRange(s, 1, Len(s))

RECURSIVE MinRange(_, _, _)
MinRange(s, lo, hi) ==
    IF lo = hi THEN s[lo]
    ELSE LET mid == (lo + hi) \div 2
         IN  Min(MinRange(s, lo, mid), MinRange(s, mid + 1, hi))
MinSeq(s) == MinRange(s, 1, Len(s))

(***************************************************************************)
(* Exact rationals [n, d] with d > 0, kept in lowest terms.                *)
(***************************************************************************)
Abs(x) == IF x < 0 THEN -x ELSE x

RECURSIVE GCD(_, _)
GCD(a, b) == IF b = 0 THEN a ELSE GCD(b, a % b)

Rat(n, d) ==
    LET g == GCD(Abs(n), Abs(d))
        s == IF d < 0 THEN -1 ELSE 1
    IN  [n |-> s * (n \div g), d |-> s * (d \div g)]

Int2Rat(i) == [n |-> i, d |-> 1]
RSub(x, y) == Rat(x.n * y.d - y.n * x.d, x.d * y.d)
RMul(x, y) == LET a == Rat(x.n, y.d)
                  b == Rat(y.n, x.d)
              IN  Rat(a.n * b.n, a.d * b.d)
\* x / y, for y # 0
RDiv(x, y) == RMul(x, Rat(y.d, y.n))
RIsZero(x) == x.n = 0

\* a/b > c/d for naturals a, c and positive b, d, by the continued-fraction
\* expansion: no product is formed, so no intermediate value overflows.
RECURSIVE FracGT(_, _, _, _)
FracGT(a, b, c, d) ==
    LET qa == a \div b
        qc == c \div d
        ra == a % b
        rc == c % d
    IN  IF qa # qc THEN qa > qc
        ELSE IF ra = 0 THEN FALSE
        ELSE IF rc = 0 THEN TRUE
        ELSE FracGT(d, rc, b, ra)

\* x > y
RGT(x, y) ==
    IF x.n >= 0 /\ y.n >= 0 THEN FracGT(x.n, x.d, y.n, y.d)
    ELSE IF x.n >= 0 THEN TRUE
    ELSE IF y.n >= 0 THEN FALSE
    ELSE FracGT(-y.n, y.d, -x.n, x.d)
RLT(x, y) == RGT(y, x)

\* statistics.mean of a non-empty list
mean(xs) == Rat(SumSeq(xs), Len(xs))

\* The square of statistics.stdev(xs), the sample variance, for Len(xs) >= 2.
\* The variance does not change when every value is shifted by xs[1].
variance(xs) ==
    LET n == Len(xs)
        ys == [i \in 1..n |-> xs[i] - xs[1]]
        sq == [i \in 1..n |-> ys[i] * ys[i]]
    IN  Rat(n * SumSeq(sq) - SumSeq(ys) * SumSeq(ys), n * (n - 1))


\* Python's None and a present value
None == <<>>
Some(x) == <<x>>

(***************************************************************************)
(* The remote endpoint (the environment).  A response is a failure of the  *)
(* request, [exc |-> message], or the chart of the JSON body: the          *)
(* timestamp array and the close array, whose entries are None or a close. *)
(***************************************************************************)
HttpError == "HTTP Error 404: Not Found"
LongError(k) ==
    StrPrefix("<urlopen error [Errno -3] Temporary failure in name resolution>", 50 + k)
FetchErrors == {HttpError, LongError(MaxOver)}

Chart(prices) ==
    [timestamp |-> [i \in 1..Len(prices) |-> i],
     close |-> [i \in 1..Len(prices) |-> Some(prices[i])]]
\* a chart whose closes are all null
NullChart(n) == [timestamp |-> [i \in 1..n |-> i], close |-> [i \in 1..n |-> None]]

Flat(n, v) == [i \in 1..n |-> v]
\* prices with the k-th value from the end replaced by v
With(prices, k, v) == [prices EXCEPT ![Len(prices) - k + 1] = v]
Spike(n, v, last) == With(Flat(n, v), 1, last)

GoldHot == Chart(Spike(252, 100, 120))
GoldCalm == Chart(Flat(252, 100))
GoldShort == Chart(Flat(30, 100))
GoldTiny == Chart(Flat(1, 100))
GoldZero == Chart(Flat(252, 0))
\* 300 closes at 2000 with a last close of 2300
Gold300 == Chart(Spike(300, 2000, 2300))
\* the last close exactly 10% above the mean of the last 50 closes (490), and
\* the next price above it
GoldEdge == Chart(Spike(252, 489, 539))
GoldPast == Chart(Spike(252, 489, 540))
Gold5yLow == Chart(Flat(15, 50))
Gold5yHigh == Chart(Flat(15, 200))
Gold5yMixed == Chart(With(With(Flat(50, 90), 1, 130), 8, 110))
TnxFlat == Chart(Flat(60, 40))
TnxSurge == Chart(Spike(60, 40, 46))
TnxShort == Chart(Spike(10, 40, 46))
DxyRising == Chart(Spike(252, 100, 105))
DxyFlat == Chart(Flat(252, 100))
DxyShort == Chart(Spike(100, 100, 105))
SpHot == Chart(Spike(252, 100, 120))
SpCalm == Chart(Flat(252, 100))
SpShort == Chart(Flat(25, 100))
VixCalm == Chart(Flat(60, 15))
VixHigh == Chart(Spike(60, 15, 30))
Tnx1mo == Chart(Flat(21, 42))
IrxLow == Chart(Flat(21, 30))
IrxHigh == Chart(Flat(21, 45))
Vix1Calm == Chart(Flat(21, 15))
Vix1Spike == Chart(Spike(21, 15, 30))
Vix1Short == Chart(Spike(5, 15, 30))
Ixic1Flat == Chart(Flat(21, 100))
Ixic1Down == Chart(Spike(21, 100, 90))
Ixic1Zero == Chart(With(Flat(21, 100), 21, 0))
NdxAll == Chart(With(Spike(252, 100, 120), 30, 130))
NdxCalm == Chart(Flat(252, 100))
NdxShort == Chart(Flat(30, 100))
NdxTiny == Chart(Flat(1, 100))
BtcAll == Chart(With(With(Spike(252, 10, 50), 30, 50), 60, 100))
BtcCalm == Chart(Flat(252, 10))
BtcShort == Chart(Flat(60, 10))
BtcTiny == Chart(Flat(1, 10))
BtcZero == Chart(Flat(252, 0))
\* the last close exactly 30% below the highest close (100), and the next
\* price below it
BtcEdge == Chart(With(Spike(252, 10, 70), 60, 100))
BtcPast == Chart(With(Spike(252, 10, 69), 60, 100))
Ixic3Down == Chart(Spike(63, 100, 80))
Ixic3Flat == Chart(Flat(63, 100))
Ixic3Short == Chart(Flat(40, 100))

\* The charts the endpoint may return for a request.
Charts(symbol, range) ==
    CASE symbol = "GC=F" /\ range = "1y" ->
            {GoldHot, GoldCalm, GoldShort, GoldTiny, GoldZero, Gold300, GoldEdge, GoldPast,
             NullChart(2)}
      [] symbol = "GC=F" /\ range = "5y" ->
            {Gold5yLow, Gold5yHigh, Gold5yMixed, NullChart(2)}
      [] symbol = "^TNX" /\ range = "3mo" -> {TnxFlat, TnxSurge, TnxShort, NullChart(2)}
      [] symbol = "DX-Y.NYB" /\ range = "1y" ->
            {DxyRising, DxyFlat, DxyShort, NullChart(2)}
      [] symbol = "^GSPC" /\ range = "1y" -> {SpHot, SpCalm, SpShort, NullChart(2)}
      [] symbol = "^VIX" /\ range = "3mo" -> {VixCalm, VixHigh, NullChart(2)}
      [] symbol = "^TNX" /\ range = "1mo" -> {Tnx1mo, NullChart(2)}
      [] symbol = "^IRX" /\ range = "1mo" -> {IrxLow, IrxHigh, NullChart(2)}
      [] symbol = "^VIX" /\ range = "1mo" -> {Vix1Calm, Vix1Spike, Vix1Short}
      [] symbol = "^IXIC" /\ range = "1mo" -> {Ixic1Flat, Ixic1Down, Ixic1Zero, NullChart(2)}
      [] symbol = "^IXIC" /\ range = "1y" -> {NdxAll, NdxCalm, NdxShort, NdxTiny, NullChart(2)}
      [] symbol = "BTC-USD" /\ range = "1y" ->
            {BtcAll, BtcCalm, BtcShort, BtcTiny, BtcZero, BtcEdge, BtcPast, NullChart(2)}
      [] symbol = "^IXIC" /\ range = "3mo" -> {Ixic3Down, Ixic3Flat, Ixic3Short}

\* The chart of an ordinary day.
Nominal(symbol, range) ==
    CASE symbol = "GC=F" /\ range = "1y" -> GoldCalm
      [] symbol = "GC=F" /\ range = "5y" -> Gold5yMixed
      [] symbol = "^TNX" /\ range = "3mo" -> TnxFlat
      [] symbol = "DX-Y.NYB" /\ range = "1y" -> DxyFlat
      [] symbol = "^GSPC" /\ range = "1y" -> SpCalm
      [] symbol = "^VIX" /\ range = "3mo" -> VixCalm
      [] symbol = "^TNX" /\ range = "1mo" -> Tnx1mo
      [] symbol = "^IRX" /\ range = "1mo" -> IrxLow
      [] symbol = "^VIX" /\ range = "1mo" -> Vix1Calm
      [] symbol = "^IXIC" /\ range = "1mo" -> Ixic1Flat
      [] symbol = "^IXIC" /\ range = "1y" -> NdxCalm
      [] symbol = "BTC-USD" /\ range = "1y" -> BtcCalm
      [] symbol = "^IXIC" /\ range = "3mo" -> Ixic3Flat

(***************************************************************************)
(* fetch_risk_barometer.py: the helpers.                                   *)
(***************************************************************************)
\* Variant of ZipNotNone: the null closes are dropped before the pairing.
ZipAfterFilter(timestamps, closes) ==
    LET kept == SelectSeq(closes, LAMBDA c : c # None)
        n == Min(Len(timestamps), Len(kept))
    IN  [i \in 1..n |-> <<timestamps[i], kept[i][1]>>]

\* [(ts, close) for ts, close in zip(timestamps, closes) if close is not None]
ZipNotNone(timestamps, closes) ==
    LET n == Min(Len(timestamps), Len(closes))
        zipped == [i \in 1..n |-> <<timestamps[i], closes[i]>>]
        kept == SelectSeq(zipped, LAMBDA pair : pair[2] # None)
    IN  [i \in 1..Len(kept) |-> <<kept[i][1], kept[i][2][1]>>]

\* fetch_yahoo_history, given the endpoint's response to its one request
fetch_yahoo_history(response) ==
    IF IsExc(response) THEN response
    ELSE Return(ZipNotNone(response.val.timestamp, response.val.close))

\* Variant of calculate_ma: a shorter series gives the mean of what there is.
calculate_ma_shorter(history, period) ==
    IF history = <<>> THEN None
    ELSE Some(mean(Prices(LastN(history, Min(period, Len(history))))))

\* calculate_ma: None, or the mean of the last `period` prices
calculate_ma(history, period) ==
    IF Len(history) < period THEN None
    ELSE Some(mean(Prices(LastN(history, period))))

\* Variant of percentile_rank: a member equal to the value counts as below.
percentile_rank_ties(value, historical_values) ==
    IF historical_values = <<>> \/ value = None THEN None
    ELSE LET count_below ==
                 Cardinality({i \in 1..Len(historical_values) : historical_values[i] <= value[1]})
         IN  Some(RMul(Rat(count_below, Len(historical_values)), Int2Rat(100)))

\* percentile_rank.  The count does not depend on the order of the sorted copy.
percentile_rank(value, historical_values) ==
    IF historical_values = <<>> \/ value = None THEN None
    ELSE LET count_below ==
                 Cardinality({i \in 1..Len(historical_values) : historical_values[i] < value[1]})
         IN  Some(RMul(Rat(count_below, Len(historical_values)), Int2Rat(100)))

\* Python truthiness of an optional float: None and 0.0 are false
Truthy(x) == x # None /\ ~RIsZero(x[1])

\* repr of a bool
Bool(b) == IF b THEN "True" ELSE "False"

\* ((a - b) / b) * 100 for prices a, b; ZeroDivisionError when b = 0
PctChange(a, b) ==
    IF RIsZero(b) THEN Raise(ZeroDivisionError)
    ELSE Return(RMul(RDiv(RSub(a, b), b), Int2Rat(100)))

\* stdev(xs) / mean(xs) * 100 > num / den, decided on the squares.  stdev is
\* evaluated first and raises on fewer than two points; the division raises on
\* a zero mean.  Prices are not negative, so the mean is not.
VolatilityAbove(xs, num, den) ==
    IF Len(xs) < 2 THEN Raise(StatisticsError)
    ELSE IF RIsZero(mean(xs)) THEN Raise(ZeroDivisionError)
    ELSE LET m == mean(xs)
             lhs == RMul(variance(xs), Int2Rat(10000))
             rhs == RMul(RMul(m, m), Rat(num * num, den * den))
         IN  Return(RGT(lhs, rhs))

\* Variants of Fallback: one that loses the signal's budget, one that keeps
\* the whole message.
FallbackNoBudget(name, maxPoints, e) ==
    [name |-> name, triggered |-> "False", points |-> 0, maxPoints |-> 0,
     detail |-> "Data unavailable: " \o StrPrefix(e, 50)]

FallbackUncut(name, maxPoints, e) ==
    [name |-> name, triggered |-> "False", points |-> 0, maxPoints |-> maxPoints,
     detail |-> "Data unavailable: " \o e]

\* The record a signal's except clause appends.
Fallback(name, maxPoints, e) ==
    [name |-> name, triggered |-> "False", points |-> 0, maxPoints |-> maxPoints,
     detail |-> "Data unavailable: " \o StrPrefix(e, 50)]

\* Variant of Signal: the full budget whatever the trigger.
SignalFullPoints(name, triggered, points, maxPoints, detail) ==
    [name |-> name, triggered |-> triggered, points |-> maxPoints,
     maxPoints |-> maxPoints, detail |-> detail]

\* The record a signal's try block appends.
Signal(name, triggered, points, maxPoints, detail) ==
    [name |-> name, triggered |-> triggered, points |-> points,
     maxPoints |-> maxPoints, detail |-> detail]

\* Variant of Except: a failed block charges its budget to the score.
ExceptCharges(try, name, maxPoints) ==
    IF IsExc(try.out)
    THEN [sig |-> Fallback(name, maxPoints, try.out.exc), add |-> maxPoints,
          reqs |-> try.reqs]
    ELSE [sig |-> try.out.val, add |-> try.out.val.points, reqs |-> try.reqs]

\* One try/except block: the record appended, what was added to score, and
\* the requests issued (reqs, set by the block).
Except(try, name, maxPoints) ==
    IF IsExc(try.out)
    THEN [sig |-> Fallback(name, maxPoints, try.out.exc), add |-> 0, reqs |-> try.reqs]
    ELSE [sig |-> try.out.val, add |-> try.out.val.points, reqs |-> try.reqs]

(***************************************************************************)
(* State.                                                                  *)
(***************************************************************************)
VARIABLES
    script,        \* the script the process runs
    varied,        \* environment: the entity whose requests get every answer, or "-"
    pc,            \* where the process is
    idx,           \* main's loop: the position in the entity list
    history,       \* the barometer function's baseline series (gold_history, ...)
    current_price, \* the barometer function's current_price
    signals,       \* the barometer function's signals list
    score,         \* the barometer function's score
    barometers,    \* main's barometers dict, in insertion order
    assets,        \* fetch_market_data.main's assets dict, in insertion order
    success,       \* fetch_market_data.main's success count
    file,          \* the JSON document written, <<>> before the write
    exit_status,   \* the process's exit status once pc = "exited"
    requests,      \* observation: the requests issued so far, with their outcomes
    memo,          \* the same run with fetch_yahoo_history memoized on (symbol, range)
    unit           \* a call of one helper function on its own: arguments and result

vars == <<script, varied, pc, idx, history, current_price, signals, score,
          barometers, assets, success, file, exit_status, requests, memo, unit>>

\* main's list of (name, func) pairs
BAROMETERS == <<"gold", "sp500", "nasdaq", "bitcoin">>

\* d[key] = value on a dict kept as a sequence of [key, value] in insertion order
DictSet(d, key, value) ==
    IF \E i \in 1..Len(d) : d[i].key = key
    THEN [i \in 1..Len(d) |-> IF d[i].key = key THEN [key |-> key, value |-> value] ELSE d[i]]
    ELSE Append(d, [key |-> key, value |-> value])

\* The symbols that more than one barometer function requests.
SharedSymbols == {"^VIX", "^TNX"}

\* The answers the endpoint may give to a request of the entity being evaluated.
\* The requests of the varied entity, or for the varied symbol, get every
\* answer.  In a run that varies an entity the endpoint is down for the other
\* entities; in a run that varies a symbol every other request gets the chart
\* of an ordinary day; in a run that varies none ("-") a baseline request
\* fails or gets the chart of an ordinary day, and every other request gets
\* that chart.
Remote(entity, symbol, range, baseline) ==
    IF varied \in {entity, symbol}
    THEN {Raise(m) : m \in FetchErrors} \cup {Return(c) : c \in Charts(symbol, range)}
    ELSE IF varied \in SharedSymbols THEN {Return(Nominal(symbol, range))}
    ELSE IF varied # "-" THEN {Raise(HttpError)}
    ELSE IF baseline THEN {Raise(HttpError), Return(Nominal(symbol, range))}
    ELSE {Return(Nominal(symbol, range))}

\* The observation of one request: what was asked and how it ended.
Req(entity, symbol, range, response) ==
    [entity |-> entity, symbol |-> symbol, range |-> range,
     raised |-> IsExc(response),
     n |-> IF IsExc(response) THEN 0 ELSE Len(fetch_yahoo_history(response).val),
     response |-> response]

(***************************************************************************)
(* The memoized variant: fetch_yahoo_history keeps, for the run, the       *)
(* series it returned for each (symbol, range) and returns it again        *)
(* without a request; a call that raised keeps nothing.  The variant runs  *)
(* beside the program: where both issue a request they get the same        *)
(* answer.  memo.cache holds the responses kept, memo.signals, memo.score  *)
(* and memo.barometers are the variant's signals, score and barometers.    *)
(***************************************************************************)
Hit(cache, symbol, range) ==
    {i \in 1..Len(cache) : cache[i].symbol = symbol /\ cache[i].range = range}

\* Variant of Cached: the series kept for the symbol, whatever its range.
CachedBySymbol(cache, symbol, range, response) ==
    IF \E i \in 1..Len(cache) : cache[i].symbol = symbol
    THEN cache[CHOOSE i \in 1..Len(cache) : cache[i].symbol = symbol].response
    ELSE response

\* What the variant's call gets where the program's request got `response`.
Cached(cache, symbol, range, response) ==
    IF Hit(cache, symbol, range) # {}
    THEN cache[CHOOSE i \in Hit(cache, symbol, range) : TRUE].response
    ELSE response

\* The cache after that call.
Store(cache, symbol, range, response) ==
    IF IsExc(response) \/ Hit(cache, symbol, range) # {} THEN cache
    ELSE Append(cache, [symbol |-> symbol, range |-> range, response |-> response])

\* The variant's signal block: block is the result of Except on its answers.
MemoStep(block, cache) ==
    memo' = [memo EXCEPT !.signals = Append(@, block.sig),
                         !.score = @ + block.add,
                         !.cache = cache]

\* The variant's main stores what its function returned.
MemoStore(cache, barometer) ==
    memo' = [cache |-> cache, signals |-> <<>>, score |-> 0,
             barometers |-> DictSet(memo.barometers, BAROMETERS[idx], barometer)]

(***************************************************************************)
(* The steps shared by the four barometer functions.                       *)
(***************************************************************************)
\* Variant of Level: strict comparisons.
LevelStrict(s) ==
    IF s < 30 THEN "LOW"
    ELSE IF s < 50 THEN "CAUTION"
    ELSE IF s < 70 THEN "WARNING"
    ELSE "DANGER"

\* The if/elif chain that closes each barometer function.
Level(s) ==
    IF s <= 30 THEN "LOW"
    ELSE IF s <= 50 THEN "CAUTION"
    ELSE IF s <= 70 THEN "WARNING"
    ELSE "DANGER"

\* Variant of Baseline: an empty series is not a failure.
BaselineAcceptsEmpty(label, response) ==
    LET h == fetch_yahoo_history(response)
    IN  IF IsExc(h)
        THEN [error |-> "Failed to fetch " \o label \o " data: " \o h.exc]
        ELSE [history |-> h.val,
              current_price |-> IF h.val = <<>> THEN 0 ELSE h.val[Len(h.val)][2]]

\* history = fetch_yahoo_history(symbol, '1y'); current_price = history[-1][1]
\* inside the function's first try: the error dict returned, or the two values.
Baseline(label, response) ==
    LET h == fetch_yahoo_history(response)
        last == IF IsExc(h) THEN h ELSE FromEnd(h.val, 1)
    IN  IF IsExc(last)
        THEN [error |-> "Failed to fetch " \o label \o " data: " \o last.exc]
        ELSE [history |-> h.val, current_price |-> last.val[2]]

\* Variant of MainStore: the loop ends at the first error entry.
MainStoreStopsOnError(barometer) ==
    /\ barometers' = DictSet(barometers, BAROMETERS[idx], barometer)
    /\ idx' = IF "error" \in DOMAIN barometer THEN Len(BAROMETERS) + 1 ELSE idx + 1
    /\ pc' = "main"
    /\ history' = <<>>
    /\ current_price' = 0
    /\ signals' = <<>>
    /\ score' = 0

\* main's loop body when func() returned `barometer`: both branches store it.
MainStore(barometer) ==
    /\ barometers' = DictSet(barometers, BAROMETERS[idx], barometer)
    /\ idx' = idx + 1
    /\ pc' = "main"
    /\ history' = <<>>
    /\ current_price' = 0
    /\ signals' = <<>>
    /\ score' = 0

\* A call of a barometer function up to its first signal.
Enter(name, label, symbol) ==
    /\ script = "risk_barometer"
    /\ pc = "main"
    /\ idx <= Len(BAROMETERS)
    /\ BAROMETERS[idx] = name
    /\ \E response \in Remote(name, symbol, "1y", TRUE) :
          LET b == Baseline(label, response)
          IN  /\ requests' = Append(requests, Req(name, symbol, "1y", response))
              /\ IF "error" \in DOMAIN b
                 THEN /\ MainStore(b)
                      /\ MemoStore(Store(memo.cache, symbol, "1y", response), b)
                 ELSE /\ history' = b.history
                      /\ current_price' = b.current_price
                      /\ signals' = <<>>
                      /\ score' = 0
                      /\ pc' = "signal1"
                      /\ memo' = [memo EXCEPT !.cache = Store(@, symbol, "1y", response)]
                      /\ UNCHANGED <<idx, barometers>>
    /\ UNCHANGED <<script, varied, assets, success, file, exit_status, unit>>

\* Variant of Step: the score is overwritten, not accumulated.
StepOverwrites(name, k, block) ==
    /\ signals' = Append(signals, block.sig)
    /\ score' = block.add
    /\ requests' = requests \o block.reqs
    /\ pc' = IF k = 5 THEN "level" ELSE "signal" \o ToString(k + 1)
    /\ UNCHANGED <<script, varied, idx, history, current_price, barometers,
                   assets, success, file, exit_status, unit>>

\* One signal block of the function `name`: block is the result of Except.
Step(name, k, block) ==
    /\ signals' = Append(signals, block.sig)
    /\ score' = score + block.add
    /\ requests' = requests \o block.reqs
    /\ pc' = IF k = 5 THEN "level" ELSE "signal" \o ToString(k + 1)
    /\ UNCHANGED <<script, varied, idx, history, current_price, barometers,
                   assets, success, file, exit_status, unit>>

At(name, k) ==
    /\ script = "risk_barometer"
    /\ pc = "signal" \o ToString(k)
    /\ BAROMETERS[idx] = name

\* The level, the recommendation and the return; main stores the result.
Leave(name, recommendation) ==
    /\ script = "risk_barometer"
    /\ pc = "level"
    /\ BAROMETERS[idx] = name
    /\ MainStore([score |-> score, level |-> Level(score), signals |-> signals,
                  recommendation |-> recommendation[Level(score)]])
    /\ MemoStore(memo.cache,
                 [score |-> memo.score, level |-> Level(memo.score),
                  signals |-> memo.signals,
                  recommendation |-> recommendation[Level(memo.score)]])
    /\ UNCHANGED <<script, varied, assets, success, file, exit_status, requests, unit>>

(***************************************************************************)
(* fetch_gold_barometer                                                    *)
(***************************************************************************)
\* try block of signal 1: COT positioning proxy
gold_cot_try(price, r5y) ==
    LET gold_5y == fetch_yahoo_history(r5y)
    IN  IF IsExc(gold_5y) THEN gold_5y
        ELSE LET weekly_prices == Prices(EveryKth(gold_5y.val, 7))
                 price_percentile == percentile_rank(Some(price), weekly_prices)
                 \* price_percentile and price_percentile > 85
                 cot_triggered ==
                     IF price_percentile = None THEN "None"
                     ELSE IF RIsZero(price_percentile[1]) THEN "0.0"
                     ELSE Bool(RGT(price_percentile[1], Int2Rat(85)))
                 cot_points == IF cot_triggered = "True" THEN 30 ELSE 0
             IN  Return(Signal("COT Positioning (Proxy)", cot_triggered, cot_points, 30,
                               IF Truthy(price_percentile)
                               THEN "Price at {price_percentile:.0f}th percentile (5yr)"
                               ELSE "Unavailable"))

gold_cot ==
    /\ At("gold", 1)
    /\ \E r5y \in Remote("gold", "GC=F", "5y", FALSE) :
          LET m == Cached(memo.cache, "GC=F", "5y", r5y)
          IN  /\ Step("gold", 1,
                      Except([out |-> gold_cot_try(current_price, r5y),
                              reqs |-> <<Req("gold", "GC=F", "5y", r5y)>>],
                             "COT Positioning", 30))
              /\ MemoStep(Except([out |-> gold_cot_try(current_price, m), reqs |-> <<>>],
                                 "COT Positioning", 30),
                          Store(memo.cache, "GC=F", "5y", m))

\* try block of signal 2: real yields
gold_real_yields_try(rtnx) ==
    LET tnx_history == fetch_yahoo_history(rtnx)
    IN  IF IsExc(tnx_history) THEN tnx_history
        ELSE IF Len(tnx_history.val) >= 28
        THEN LET current_yield == Rat(FromEnd(tnx_history.val, 1).val[2], 10)
                 month_ago_yield == Rat(FromEnd(tnx_history.val, 28).val[2], 10)
                 yield_change == RMul(RSub(current_yield, month_ago_yield), Int2Rat(100))
                 real_yields_triggered == RGT(yield_change, Int2Rat(50))
                 real_yields_points == IF real_yields_triggered THEN 25 ELSE 0
             IN  Return(Signal("Real Yields Surge", Bool(real_yields_triggered),
                               real_yields_points, 25,
                               "4-week change: {yield_change:+.0f}bps (current: {current_yield:.2f}%)"))
        ELSE Raise("Insufficient yield data")

gold_real_yields ==
    /\ At("gold", 2)
    /\ \E rtnx \in Remote("gold", "^TNX", "3mo", FALSE) :
          LET m == Cached(memo.cache, "^TNX", "3mo", rtnx)
          IN  /\ Step("gold", 2,
                      Except([out |-> gold_real_yields_try(rtnx),
                              reqs |-> <<Req("gold", "^TNX", "3mo", rtnx)>>],
                             "Real Yields", 25))
              /\ MemoStep(Except([out |-> gold_real_yields_try(m), reqs |-> <<>>],
                                 "Real Yields", 25),
                          Store(memo.cache, "^TNX", "3mo", m))

\* Variant of ma_deviation_try: triggered at the threshold too.
ma_deviation_try_at(h, price, period, threshold, points, detail, insufficient) ==
    LET ma == calculate_ma(h, period)
    IN  IF Truthy(ma)
        THEN LET deviation_pct == PctChange(Int2Rat(price), ma[1]).val
                 ma_triggered == ~RLT(deviation_pct, Int2Rat(threshold))
                 ma_points == IF ma_triggered THEN points ELSE 0
             IN  Return(Signal("MA Overextension", Bool(ma_triggered), ma_points,
                               points, detail))
        ELSE Raise(insufficient)

\* The MA-deviation block that gold, S&P 500, Nasdaq and bitcoin share in
\* shape: period, threshold, points and texts differ.
ma_deviation_try(h, price, period, threshold, points, detail, insufficient) ==
    LET ma == calculate_ma(h, period)
    IN  IF Truthy(ma)
        THEN LET deviation_pct == PctChange(Int2Rat(price), ma[1]).val
                 ma_triggered == RGT(deviation_pct, Int2Rat(threshold))
                 ma_points == IF ma_triggered THEN points ELSE 0
             IN  Return(Signal("MA Overextension", Bool(ma_triggered), ma_points,
                               points, detail))
        ELSE Raise(insufficient)

gold_ma ==
    /\ At("gold", 3)
    /\ LET block ==
               Except([out |-> ma_deviation_try(history, current_price, 50, 10, 15,
                                                "{deviation_pct:+.1f}% above 50-day MA",
                                                "Insufficient history for MA"),
                       reqs |-> <<>>],
                      "MA Deviation", 15)
       IN  /\ Step("gold", 3, block)
           /\ MemoStep(block, memo.cache)

\* try block of signal 4: DXY breakout
gold_dxy_try(rdxy) ==
    LET dxy_history == fetch_yahoo_history(rdxy)
        last == IF IsExc(dxy_history) THEN dxy_history ELSE FromEnd(dxy_history.val, 1)
    IN  IF IsExc(last) THEN last
        ELSE LET current_dxy == last.val[2]
                 ma_200 == calculate_ma(dxy_history.val, 200)
             IN  IF Truthy(ma_200)
                 THEN LET week_ago_dxy ==
                              IF Len(dxy_history.val) >= 7
                              THEN FromEnd(dxy_history.val, 7).val[2]
                              ELSE current_dxy
                          is_rising == current_dxy > week_ago_dxy
                          above_ma == RGT(Int2Rat(current_dxy), ma_200[1])
                          dxy_triggered == above_ma /\ is_rising
                          dxy_points == IF dxy_triggered THEN 15 ELSE 0
                      IN  Return(Signal("DXY Breakout", Bool(dxy_triggered), dxy_points, 15,
                                        IF is_rising
                                        THEN "{ma_diff_pct:+.1f}% vs 200-MA, rising"
                                        ELSE "{ma_diff_pct:+.1f}% vs 200-MA, falling"))
                 ELSE Raise("Insufficient DXY history")

gold_dxy ==
    /\ At("gold", 4)
    /\ \E rdxy \in Remote("gold", "DX-Y.NYB", "1y", FALSE) :
          LET m == Cached(memo.cache, "DX-Y.NYB", "1y", rdxy)
          IN  /\ Step("gold", 4,
                      Except([out |-> gold_dxy_try(rdxy),
                              reqs |-> <<Req("gold", "DX-Y.NYB", "1y", rdxy)>>],
                             "DXY Breakout", 15))
              /\ MemoStep(Except([out |-> gold_dxy_try(m), reqs |-> <<>>],
                                 "DXY Breakout", 15),
                          Store(memo.cache, "DX-Y.NYB", "1y", m))

\* try block of signal 5: volatility as a sentiment proxy
gold_sentiment_try(h) ==
    LET recent_prices == Prices(LastN(h, 20))
    IN  IF Len(recent_prices) >= 20
        THEN LET above == VolatilityAbove(recent_prices, 3, 1)
             IN  IF IsExc(above) THEN above
                 ELSE Return(Signal("Volatility Extreme", Bool(above.val),
                                    IF above.val THEN 15 ELSE 0, 15,
                                    "20-day volatility: {volatility:.2f}%"))
        ELSE Raise("Insufficient data")

gold_sentiment ==
    /\ At("gold", 5)
    /\ LET block ==
               Except([out |-> gold_sentiment_try(history), reqs |-> <<>>],
                      "Sentiment", 15)
       IN  /\ Step("gold", 5, block)
           /\ MemoStep(block, memo.cache)

GoldRecommendation ==
    [LOW |-> "Normal conditions. Maintain trend-following positions.",
     CAUTION |-> "Elevated risk. Monitor closely, prepare hedges.",
     WARNING |-> "High risk. Consider reducing exposure by 25-50%.",
     DANGER |-> "Extreme risk. Hedge aggressively or reduce to 25% position."]

gold_enter == Enter("gold", "gold", "GC=F")
gold_level == Leave("gold", GoldRecommendation)

(***************************************************************************)
(* fetch_sp500_barometer                                                   *)
(***************************************************************************)
\* fetch_yahoo_history(symbol, range)[-1][1]
LastClose(response) ==
    Bind(fetch_yahoo_history(response), LAMBDA h :
    Bind(FromEnd(h, 1), LAMBDA last : Return(last[2])))

\* try block of the VIX-level signal of S&P 500 and Nasdaq
vix_level_try(rvix, detail) ==
    Bind(LastClose(rvix), LAMBDA current_vix :
         LET vix_triggered == current_vix > 25
             vix_points == IF vix_triggered THEN 30 ELSE 0
         IN  Return(Signal("VIX Elevated", Bool(vix_triggered), vix_points, 30, detail)))

sp500_vix ==
    /\ At("sp500", 1)
    /\ \E rvix \in Remote("sp500", "^VIX", "3mo", FALSE) :
          LET m == Cached(memo.cache, "^VIX", "3mo", rvix)
          IN  /\ Step("sp500", 1,
                      Except([out |-> vix_level_try(rvix, "VIX at {current_vix:.1f} (threshold: 25)"),
                              reqs |-> <<Req("sp500", "^VIX", "3mo", rvix)>>],
                             "VIX Level", 30))
              /\ MemoStep(Except([out |-> vix_level_try(m, "VIX at {current_vix:.1f} (threshold: 25)"), reqs |-> <<>>],
                                 "VIX Level", 30),
                          Store(memo.cache, "^VIX", "3mo", m))

\* try block of signal 2: yield curve
sp500_curve_try(rtnx, rirx) ==
    Bind(LastClose(rtnx), LAMBDA tnx :
    Bind(LastClose(rirx), LAMBDA irx :
         LET tnx_10y == Rat(tnx, 10)
             irx_short == Rat(irx, 10)
             yield_spread == RSub(tnx_10y, irx_short)
             curve_triggered == RLT(yield_spread, Rat(2, 10))
             curve_points == IF curve_triggered THEN 25 ELSE 0
         IN  Return(Signal("Yield Curve", Bool(curve_triggered), curve_points, 25,
                           IF RLT(yield_spread, Int2Rat(0))
                           THEN "10Y-2Y spread: {yield_spread:.2f}% (inverted)"
                           ELSE "10Y-2Y spread: {yield_spread:.2f}% "))))

\* The ^IRX request is issued only when the ^TNX value was obtained.
sp500_curve_reqs(rtnx, rirx) ==
    <<Req("sp500", "^TNX", "1mo", rtnx)>> \o
    (IF IsExc(LastClose(rtnx)) THEN <<>> ELSE <<Req("sp500", "^IRX", "1mo", rirx)>>)

sp500_curve ==
    /\ At("sp500", 2)
    /\ \E rtnx \in Remote("sp500", "^TNX", "1mo", FALSE) :
       \E rirx \in Remote("sp500", "^IRX", "1mo", FALSE) :
          LET mtnx == Cached(memo.cache, "^TNX", "1mo", rtnx)
              c1 == Store(memo.cache, "^TNX", "1mo", mtnx)
              mirx == Cached(c1, "^IRX", "1mo", rirx)
              \* the variant calls for ^IRX only when it has the ^TNX value
              c2 == IF IsExc(LastClose(mtnx)) THEN c1 ELSE Store(c1, "^IRX", "1mo", mirx)
          IN  /\ Step("sp500", 2,
                      Except([out |-> sp500_curve_try(rtnx, rirx),
                              reqs |-> sp500_curve_reqs(rtnx, rirx)],
                             "Yield Curve", 25))
              /\ MemoStep(Except([out |-> sp500_curve_try(mtnx, mirx), reqs |-> <<>>],
                                 "Yield Curve", 25),
                          c2)

sp500_ma ==
    /\ At("sp500", 3)
    /\ LET block ==
               Except([out |-> ma_deviation_try(history, current_price, 200, 8, 20,
                                                "{deviation_pct:+.1f}% vs 200-day MA",
                                                "Insufficient history"),
                       reqs |-> <<>>],
                      "MA Deviation", 20)
       IN  /\ Step("sp500", 3, block)
           /\ MemoStep(block, memo.cache)

\* try block of signal 4: the ^VIX 1mo series is requested up to three times,
\* for the current value (r1), the length test (r2) and the week-ago value (r3)
sp500_hedging_try(r1, r2, r3) ==
    Bind(LastClose(r1), LAMBDA vix_current :
    Bind(fetch_yahoo_history(r2), LAMBDA h2 :
    Bind(IF Len(h2) >= 7
         THEN Bind(fetch_yahoo_history(r3), LAMBDA h3 :
              Bind(FromEnd(h3, 7), LAMBDA week : Return(week[2])))
         ELSE Return(vix_current),
         LAMBDA vix_week_ago :
    Bind(PctChange(Int2Rat(vix_current), Int2Rat(vix_week_ago)), LAMBDA vix_change_pct :
         LET pc_triggered == RGT(vix_change_pct, Int2Rat(30))
             pc_points == IF pc_triggered THEN 15 ELSE 0
         IN  Return(Signal("Hedging Surge", Bool(pc_triggered), pc_points, 15,
                           "VIX 1-week change: {vix_change_pct:+.1f}%"))))))

\* Variant of sp500_hedging_reqs: a first request that failed is issued again.
sp500_hedging_reqs_retry(r1, r2, r3) ==
    IF IsExc(r1)
    THEN <<Req("sp500", "^VIX", "1mo", r1), Req("sp500", "^VIX", "1mo", r2)>>
    ELSE <<Req("sp500", "^VIX", "1mo", r1)>> \o
         (IF IsExc(LastClose(r1)) THEN <<>>
          ELSE <<Req("sp500", "^VIX", "1mo", r2)>> \o
               (IF IsExc(r2) \/ Len(fetch_yahoo_history(r2).val) < 7 THEN <<>>
                ELSE <<Req("sp500", "^VIX", "1mo", r3)>>))

\* The requests the try block of signal 4 issues, in order.
sp500_hedging_reqs(r1, r2, r3) ==
    <<Req("sp500", "^VIX", "1mo", r1)>> \o
    (IF IsExc(LastClose(r1)) THEN <<>>
     ELSE <<Req("sp500", "^VIX", "1mo", r2)>> \o
          (IF IsExc(r2) \/ Len(fetch_yahoo_history(r2).val) < 7 THEN <<>>
           ELSE <<Req("sp500", "^VIX", "1mo", r3)>>))

sp500_hedging ==
    /\ At("sp500", 4)
    /\ \E r1 \in Remote("sp500", "^VIX", "1mo", FALSE) :
       \E r2 \in Remote("sp500", "^VIX", "1mo", FALSE) :
       \E r3 \in Remote("sp500", "^VIX", "1mo", FALSE) :
          LET m1 == Cached(memo.cache, "^VIX", "1mo", r1)
              c1 == Store(memo.cache, "^VIX", "1mo", m1)
              \* the later calls are made only when the first returned, and
              \* then they find its series in the cache
              m2 == Cached(c1, "^VIX", "1mo", r2)
              m3 == Cached(c1, "^VIX", "1mo", r3)
          IN  /\ Step("sp500", 4,
                      Except([out |-> sp500_hedging_try(r1, r2, r3),
                              reqs |-> sp500_hedging_reqs(r1, r2, r3)],
                             "Put/Call Ratio", 15))
              /\ MemoStep(Except([out |-> sp500_hedging_try(m1, m2, m3), reqs |-> <<>>],
                                 "Put/Call Ratio", 15),
                          c1)

\* try block of signal 5: market breadth
sp500_breadth_try(h, rixic) ==
    Bind(fetch_yahoo_history(rixic), LAMBDA nasdaq_history :
    Bind(FromEnd(nasdaq_history, 1), LAMBDA last :
    Bind(PctChange(Int2Rat(last[2]), Int2Rat(nasdaq_history[1][2])), LAMBDA nasdaq_change_1m :
    Bind(IF Len(h) >= 30
         THEN PctChange(Int2Rat(FromEnd(h, 1).val[2]), Int2Rat(FromEnd(h, 30).val[2]))
         ELSE Return(Int2Rat(0)),
         LAMBDA sp_change_1m :
         LET divergence == RSub(nasdaq_change_1m, sp_change_1m)
             breadth_triggered == RLT(divergence, Int2Rat(-3))
             breadth_points == IF breadth_triggered THEN 10 ELSE 0
         IN  Return(Signal("Market Breadth", Bool(breadth_triggered), breadth_points, 10,
                           "NDX-SPX divergence: {divergence:+.1f}%"))))))

sp500_breadth ==
    /\ At("sp500", 5)
    /\ \E rixic \in Remote("sp500", "^IXIC", "1mo", FALSE) :
          LET m == Cached(memo.cache, "^IXIC", "1mo", rixic)
          IN  /\ Step("sp500", 5,
                      Except([out |-> sp500_breadth_try(history, rixic),
                              reqs |-> <<Req("sp500", "^IXIC", "1mo", rixic)>>],
                             "Market Breadth", 10))
              /\ MemoStep(Except([out |-> sp500_breadth_try(history, m), reqs |-> <<>>],
                                 "Market Breadth", 10),
                          Store(memo.cache, "^IXIC", "1mo", m))

Sp500Recommendation ==
    [LOW |-> "Normal market conditions. Continue systematic strategies.",
     CAUTION |-> "Elevated risk. Consider tightening stops.",
     WARNING |-> "High risk environment. Reduce equity exposure.",
     DANGER |-> "Extreme risk. Consider significant hedging."]

sp500_enter == Enter("sp500", "S&P 500", "^GSPC")
sp500_level == Leave("sp500", Sp500Recommendation)

(***************************************************************************)
(* fetch_nasdaq_barometer                                                  *)
(***************************************************************************)
nasdaq_vix ==
    /\ At("nasdaq", 1)
    /\ \E rvix \in Remote("nasdaq", "^VIX", "3mo", FALSE) :
          LET m == Cached(memo.cache, "^VIX", "3mo", rvix)
          IN  /\ Step("nasdaq", 1,
                      Except([out |-> vix_level_try(rvix, "VIX at {current_vix:.1f}"),
                              reqs |-> <<Req("nasdaq", "^VIX", "3mo", rvix)>>],
                             "VIX Level", 30))
              /\ MemoStep(Except([out |-> vix_level_try(m, "VIX at {current_vix:.1f}"), reqs |-> <<>>],
                                 "VIX Level", 30),
                          Store(memo.cache, "^VIX", "3mo", m))

nasdaq_ma ==
    /\ At("nasdaq", 2)
    /\ LET block ==
               Except([out |-> ma_deviation_try(history, current_price, 200, 12, 25,
                                                "{deviation_pct:+.1f}% vs 200-day MA",
                                                "Insufficient history"),
                       reqs |-> <<>>],
                      "MA Deviation", 25)
       IN  /\ Step("nasdaq", 2, block)
           /\ MemoStep(block, memo.cache)

\* try block of signal 3: rate sensitivity
\* Variant of nasdaq_yield_change: a short series is compared with its oldest point.
nasdaq_yield_change_oldest(tnx_history, last) ==
    LET current_yield == Rat(last[2], 10)
        month_ago_yield ==
            IF Len(tnx_history) >= 28
            THEN Rat(FromEnd(tnx_history, 28).val[2], 10)
            ELSE Rat(tnx_history[1][2], 10)
    IN  RMul(RSub(current_yield, month_ago_yield), Int2Rat(100))

\* yield_change of signal 3, in basis points: last is tnx_history[-1]
nasdaq_yield_change(tnx_history, last) ==
    LET current_yield == Rat(last[2], 10)
        month_ago_yield ==
            IF Len(tnx_history) >= 28
            THEN Rat(FromEnd(tnx_history, 28).val[2], 10)
            ELSE current_yield
    IN  RMul(RSub(current_yield, month_ago_yield), Int2Rat(100))

nasdaq_rate_try(rtnx) ==
    Bind(fetch_yahoo_history(rtnx), LAMBDA tnx_history :
    Bind(FromEnd(tnx_history, 1), LAMBDA last :
         LET yield_change == nasdaq_yield_change(tnx_history, last)
             rate_triggered == RGT(yield_change, Int2Rat(40))
             rate_points == IF rate_triggered THEN 20 ELSE 0
         IN  Return(Signal("Rate Surge", Bool(rate_triggered), rate_points, 20,
                           "4-week yield change: {yield_change:+.0f}bps"))))

nasdaq_rate ==
    /\ At("nasdaq", 3)
    /\ \E rtnx \in Remote("nasdaq", "^TNX", "3mo", FALSE) :
          LET m == Cached(memo.cache, "^TNX", "3mo", rtnx)
          IN  /\ Step("nasdaq", 3,
                      Except([out |-> nasdaq_rate_try(rtnx),
                              reqs |-> <<Req("nasdaq", "^TNX", "3mo", rtnx)>>],
                             "Rate Sensitivity", 20))
              /\ MemoStep(Except([out |-> nasdaq_rate_try(m), reqs |-> <<>>],
                                 "Rate Sensitivity", 20),
                          Store(memo.cache, "^TNX", "3mo", m))

\* try block of signal 4: momentum reversal
nasdaq_momentum_try(h, price) ==
    IF Len(h) >= 60
    THEN LET price_60d_ago == FromEnd(h, 60).val[2]
             price_30d_ago == FromEnd(h, 30).val[2]
         IN  Bind(PctChange(Int2Rat(price_30d_ago), Int2Rat(price_60d_ago)), LAMBDA momentum_60d :
             Bind(PctChange(Int2Rat(price), Int2Rat(price_30d_ago)), LAMBDA momentum_recent :
                  LET reversal_triggered ==
                          RGT(momentum_60d, Int2Rat(5)) /\ RLT(momentum_recent, Int2Rat(-2))
                      reversal_points == IF reversal_triggered THEN 15 ELSE 0
                  IN  Return(Signal("Momentum Reversal", Bool(reversal_triggered),
                                    reversal_points, 15,
                                    "60d: {momentum_60d:+.1f}%, 30d: {momentum_recent:+.1f}%"))))
    ELSE Raise("Insufficient history")

nasdaq_momentum ==
    /\ At("nasdaq", 4)
    /\ LET block ==
               Except([out |-> nasdaq_momentum_try(history, current_price), reqs |-> <<>>],
                      "Momentum", 15)
       IN  /\ Step("nasdaq", 4, block)
           /\ MemoStep(block, memo.cache)

\* try block of the volatility signal of Nasdaq (20 days, 2.5%, 10 points,
\* 'Volatility Spike') and of bitcoin (30 days, 8%, 25 points, 'Volatility Extreme')
volatility_try(h, days, num, den, name, points, detail) ==
    LET recent_prices == Prices(LastN(h, days))
    IN  Bind(VolatilityAbove(recent_prices, num, den), LAMBDA vol_triggered :
             Return(Signal(name, Bool(vol_triggered), IF vol_triggered THEN points ELSE 0,
                           points, detail)))

nasdaq_volatility ==
    /\ At("nasdaq", 5)
    /\ LET block ==
               Except([out |-> volatility_try(history, 20, 5, 2, "Volatility Spike", 10,
                                              "20-day vol: {volatility:.2f}%"),
                       reqs |-> <<>>],
                      "Volatility", 10)
       IN  /\ Step("nasdaq", 5, block)
           /\ MemoStep(block, memo.cache)

NasdaqRecommendation ==
    [LOW |-> "Normal conditions for growth/tech.",
     CAUTION |-> "Elevated risk. Monitor rate-sensitive positions.",
     WARNING |-> "High risk. Consider rotating to defensive sectors.",
     DANGER |-> "Extreme risk for tech. Reduce exposure significantly."]

nasdaq_enter == Enter("nasdaq", "Nasdaq", "^IXIC")
nasdaq_level == Leave("nasdaq", NasdaqRecommendation)

(***************************************************************************)
(* fetch_bitcoin_barometer                                                 *)
(***************************************************************************)
bitcoin_ma ==
    /\ At("bitcoin", 1)
    /\ LET block ==
               Except([out |-> ma_deviation_try(history, current_price, 200, 25, 30,
                                                "{deviation_pct:+.1f}% vs 200-day MA",
                                                "Insufficient history"),
                       reqs |-> <<>>],
                      "MA Deviation", 30)
       IN  /\ Step("bitcoin", 1, block)
           /\ MemoStep(block, memo.cache)

bitcoin_volatility ==
    /\ At("bitcoin", 2)
    /\ LET block ==
               Except([out |-> volatility_try(history, 30, 8, 1, "Volatility Extreme", 25,
                                              "30-day volatility: {volatility:.2f}%"),
                       reqs |-> <<>>],
                      "Volatility", 25)
       IN  /\ Step("bitcoin", 2, block)
           /\ MemoStep(block, memo.cache)

\* try block of signal 3: momentum exhaustion
bitcoin_momentum_try(h, price) ==
    IF Len(h) >= 90
    THEN LET price_90d_ago == FromEnd(h, 90).val[2]
             price_30d_ago == FromEnd(h, 30).val[2]
         IN  Bind(PctChange(Int2Rat(price_30d_ago), Int2Rat(price_90d_ago)), LAMBDA gain_first_60d :
             Bind(PctChange(Int2Rat(price), Int2Rat(price_30d_ago)), LAMBDA gain_last_30d :
                  LET momentum_triggered ==
                          RGT(gain_first_60d, Int2Rat(30)) /\ RLT(gain_last_30d, Int2Rat(10))
                      momentum_points == IF momentum_triggered THEN 20 ELSE 0
                  IN  Return(Signal("Momentum Exhaustion", Bool(momentum_triggered),
                                    momentum_points, 20,
                                    "60d gain: {gain_first_60d:+.1f}%, 30d: {gain_last_30d:+.1f}%"))))
    ELSE Raise("Insufficient history")

bitcoin_momentum ==
    /\ At("bitcoin", 3)
    /\ LET block ==
               Except([out |-> bitcoin_momentum_try(history, current_price), reqs |-> <<>>],
                      "Momentum", 20)
       IN  /\ Step("bitcoin", 3, block)
           /\ MemoStep(block, memo.cache)

\* try block of signal 4: correlation with risk assets
bitcoin_correlation_try(h, rixic) ==
    Bind(fetch_yahoo_history(rixic), LAMBDA nasdaq_history :
         LET btc_recent == Prices(LastN(h, 60))
             nasdaq_recent == Prices(LastN(nasdaq_history, 60))
         IN  IF Len(btc_recent) >= 60 /\ Len(nasdaq_recent) >= 60
             THEN Bind(PctChange(Int2Rat(btc_recent[60]), Int2Rat(btc_recent[1])), LAMBDA btc_change :
                  Bind(PctChange(Int2Rat(nasdaq_recent[60]), Int2Rat(nasdaq_recent[1])), LAMBDA ndx_change :
                       LET corr_triggered ==
                               RLT(btc_change, Int2Rat(-10)) /\ RLT(ndx_change, Int2Rat(-10))
                           corr_points == IF corr_triggered THEN 15 ELSE 0
                       IN  Return(Signal("Risk-Off Correlation", Bool(corr_triggered),
                                         corr_points, 15,
                                         "BTC: {btc_change:+.1f}%, NDX: {ndx_change:+.1f}%"))))
             ELSE Raise("Insufficient data"))

bitcoin_correlation ==
    /\ At("bitcoin", 4)
    /\ \E rixic \in Remote("bitcoin", "^IXIC", "3mo", FALSE) :
          LET m == Cached(memo.cache, "^IXIC", "3mo", rixic)
          IN  /\ Step("bitcoin", 4,
                      Except([out |-> bitcoin_correlation_try(history, rixic),
                              reqs |-> <<Req("bitcoin", "^IXIC", "3mo", rixic)>>],
                             "Correlation", 15))
              /\ MemoStep(Except([out |-> bitcoin_correlation_try(history, m), reqs |-> <<>>],
                                 "Correlation", 15),
                          Store(memo.cache, "^IXIC", "3mo", m))

\* Variant of bitcoin_drawdown_try: triggered at -30% too.
bitcoin_drawdown_try_at(h, price) ==
    LET all_time_high == MaxSeq(Prices(h))
    IN  Bind(PctChange(Int2Rat(price), Int2Rat(all_time_high)), LAMBDA drawdown_pct :
             LET dd_triggered == ~RGT(drawdown_pct, Int2Rat(-30))
                 dd_points == IF dd_triggered THEN 10 ELSE 0
             IN  Return(Signal("Drawdown from ATH", Bool(dd_triggered), dd_points, 10,
                               "{drawdown_pct:.1f}% from all-time high")))

\* try block of signal 5: drawdown from the highest close of the series
bitcoin_drawdown_try(h, price) ==
    LET all_time_high == MaxSeq(Prices(h))
    IN  Bind(PctChange(Int2Rat(price), Int2Rat(all_time_high)), LAMBDA drawdown_pct :
             LET dd_triggered == RLT(drawdown_pct, Int2Rat(-30))
                 dd_points == IF dd_triggered THEN 10 ELSE 0
             IN  Return(Signal("Drawdown from ATH", Bool(dd_triggered), dd_points, 10,
                               "{drawdown_pct:.1f}% from all-time high")))

bitcoin_drawdown ==
    /\ At("bitcoin", 5)
    /\ LET block ==
               Except([out |-> bitcoin_drawdown_try(history, current_price), reqs |-> <<>>],
                      "Drawdown", 10)
       IN  /\ Step("bitcoin", 5, block)
           /\ MemoStep(block, memo.cache)

BitcoinRecommendation ==
    [LOW |-> "Normal crypto conditions. Maintain positions.",
     CAUTION |-> "Elevated risk. Consider taking profits on leveraged positions.",
     WARNING |-> "High risk. Reduce exposure, avoid leverage.",
     DANGER |-> "Extreme risk. Significant correction likely."]

bitcoin_enter == Enter("bitcoin", "Bitcoin", "BTC-USD")
bitcoin_level == Leave("bitcoin", BitcoinRecommendation)

(***************************************************************************)
(* fetch_risk_barometer.py: main                                           *)
(***************************************************************************)
\* An exception that leaves a barometer function reaches main's except
\* clause.  Every statement of the functions that can raise on bad data is
\* inside a try, so such an exception is an event of the environment; it is
\* taken at the call.
Uncaught == "maximum recursion depth exceeded"

main_except ==
    /\ script = "risk_barometer"
    /\ pc = "main"
    /\ idx <= Len(BAROMETERS)
    /\ varied \in {"-", BAROMETERS[idx]}
    /\ MainStore([error |-> Uncaught])
    /\ MemoStore(memo.cache, [error |-> Uncaught])
    /\ UNCHANGED <<script, varied, assets, success, file, exit_status, requests, unit>>

\* After the loop: the document is written, the summary printed, main returns
\* and the process ends with status 0.
main_write ==
    /\ script = "risk_barometer"
    /\ pc = "main"
    /\ idx = Len(BAROMETERS) + 1
    /\ file' = [updatedAt |-> "%Y-%m-%dT%H:%M:%SZ", barometers |-> barometers]
    /\ pc' = "exited"
    /\ exit_status' = 0
    /\ UNCHANGED <<script, varied, idx, history, current_price, signals, score,
                   barometers, assets, success, requests, memo, unit>>

(***************************************************************************)
(* fetch_market_data.py                                                    *)
(***************************************************************************)
SYMBOLS == <<"GC=F", "SI=F", "CL=F", "^GSPC", "^IXIC", "^DJI", "BTC-USD", "ETH-USD", "DX-Y.NYB">>

\* The bodies the endpoint may return for range=5d&interval=15m: the meta
\* fields fetch_symbol reads (None when absent) and the close array.
Body(price, chartPrev, prev, closes) ==
    [meta |-> [regularMarketPrice |-> price, chartPreviousClose |-> chartPrev,
               previousClose |-> prev],
     close |-> closes]
QuoteOpen == Body(Some(105), Some(100), None, <<Some(98), None, Some(101), Some(105)>>)
QuoteNoMeta == Body(None, None, Some(100), <<Some(98), Some(97)>>)
QuoteBlank == Body(None, None, None, <<None, None>>)
\* The body the endpoint returns for a symbol when the request succeeds.
BodyOf(sym) ==
    IF sym \in {"GC=F", "SI=F", "CL=F"} THEN QuoteNoMeta
    ELSE IF sym \in {"^GSPC", "^IXIC", "^DJI"} THEN QuoteBlank
    ELSE QuoteOpen

\* x or y on optional numbers: x when x is neither None nor 0
Or(x, y) == IF x # None /\ x[1] # 0 THEN x ELSE y
\* truthiness of an optional number
Nonzero(x) == x # None /\ x[1] # 0

\* round(x, 2) of a rational, half to even, as a rational
Round2(x) ==
    LET scaled == Abs(x.n) * 100
        q == scaled \div x.d
        r == scaled % x.d
        k == IF 2 * r > x.d \/ (2 * r = x.d /\ q % 2 = 1) THEN q + 1 ELSE q
    IN  Rat(IF x.n < 0 THEN -k ELSE k, 100)

\* fetch_symbol, given the endpoint's response to its one request
fetch_symbol(response) ==
    Bind(response, LAMBDA result :
         LET meta == result.meta
             closes_raw == result.close
             kept == SelectSeq(closes_raw, LAMBDA c : c # None)
             closes == [i \in 1..Len(kept) |-> kept[i][1]]
             price == Or(meta.regularMarketPrice,
                         IF closes # <<>> THEN Some(closes[Len(closes)]) ELSE None)
             prev_close == Or(meta.chartPreviousClose, meta.previousClose)
             daily_change ==
                 IF Nonzero(price) /\ Nonzero(prev_close) THEN price[1] - prev_close[1] ELSE 0
             daily_change_pct ==
                 IF Nonzero(prev_close)
                 THEN RMul(Rat(daily_change, prev_close[1]), Int2Rat(100))
                 ELSE Int2Rat(0)
             first_close == IF closes # <<>> THEN Some(closes[1]) ELSE prev_close
             week_change ==
                 IF Nonzero(price) /\ Nonzero(first_close) THEN price[1] - first_close[1] ELSE 0
             week_change_pct ==
                 IF Nonzero(first_close)
                 THEN RMul(Rat(week_change, first_close[1]), Int2Rat(100))
                 ELSE Int2Rat(0)
         IN  Return([price |-> IF Nonzero(price) THEN price ELSE None,
                     prevClose |-> IF Nonzero(prev_close) THEN prev_close ELSE None,
                     dailyChange |-> daily_change,
                     dailyChangePct |-> Round2(daily_change_pct),
                     weekChangePct |-> Round2(week_change_pct),
                     sparkData |-> LastN(closes, 48),
                     high |-> IF closes # <<>> THEN Some(MaxSeq(closes)) ELSE None,
                     low |-> IF closes # <<>> THEN Some(MinSeq(closes)) ELSE None]))

\* One round of main's loop.
market_fetch ==
    /\ script = "market_data"
    /\ pc = "main"
    /\ idx <= Len(SYMBOLS)
    /\ \E response \in {Raise(m) : m \in FetchErrors} \cup {Return(BodyOf(SYMBOLS[idx]))} :
          LET sym == SYMBOLS[idx]
              snapshot == fetch_symbol(response)
          IN  /\ requests' = Append(requests,
                                    [entity |-> sym, symbol |-> sym, range |-> "5d",
                                     raised |-> IsExc(response), n |-> 0,
                                     response |-> response])
              /\ IF IsExc(snapshot)
                 THEN /\ assets' = DictSet(assets, sym, [error |-> TRUE])
                      /\ success' = success
                 ELSE /\ assets' = DictSet(assets, sym, snapshot.val)
                      /\ success' = success + 1
    /\ idx' = idx + 1
    /\ UNCHANGED <<script, varied, pc, history, current_price, signals, score,
                   barometers, file, exit_status, memo, unit>>

\* After the loop: the document is written; sys.exit(1) when nothing
\* succeeded, else main returns and the process ends with status 0.
market_write ==
    /\ script = "market_data"
    /\ pc = "main"
    /\ idx = Len(SYMBOLS) + 1
    /\ file' = [updatedAt |-> "%Y-%m-%dT%H:%M:%SZ", assets |-> assets]
    /\ pc' = "exited"
    /\ exit_status' = IF success = 0 THEN 1 ELSE 0
    /\ UNCHANGED <<script, varied, idx, history, current_price, signals, score,
                   barometers, assets, success, requests, memo, unit>>

(***************************************************************************)
(* The helper functions called on their own (script = "unit"): unit holds  *)
(* the arguments of one call and, once the call is done, what it returned. *)
(***************************************************************************)
SeqsUpTo(S, n) == UNION {[1..k -> S] : k \in 0..n}

\* Series as fetch_yahoo_history returns them: (timestamp, close) pairs.
Histories ==
    {[i \in 1..Len(closes) |-> <<i, closes[i]>>] : closes \in SeqsUpTo(1..MaxClose, MaxLen)}

\* The timestamp arrays of a response: entries null or ascending.
Timestamps ==
    {ts \in SeqsUpTo({None} \cup {Some(t) : t \in 1..MaxLen}, MaxLen) :
        \A i, j \in 1..Len(ts) :
            (i < j /\ ts[i] # None /\ ts[j] # None) => ts[i][1] < ts[j][1]}

\* The close arrays of a response: entries null or a close.
CloseArrays == SeqsUpTo({None, Some(1), Some(2)}, MaxLen)

UnitCalls ==
    {[fn |-> "calculate_ma", history |-> h, period |-> period, done |-> FALSE] :
        h \in Histories, period \in 1..(MaxLen + 1)}
    \cup
    {[fn |-> "percentile_rank", value |-> value, historical_values |-> xs, done |-> FALSE] :
        value \in {None} \cup {Some(v) : v \in 0..(MaxClose + 1)},
        xs \in SeqsUpTo(1..MaxClose, MaxLen)}
    \cup
    {[fn |-> "fetch_yahoo_history", response |-> response, done |-> FALSE] :
        response \in {Raise(HttpError)} \cup
                     {Return([timestamp |-> ts, close |-> cs]) :
                         ts \in Timestamps, cs \in CloseArrays}}

Returned(value) ==
    /\ script = "unit"
    /\ ~unit.done
    /\ unit' = [unit EXCEPT !.done = TRUE] @@ [ret |-> value]
    /\ UNCHANGED <<script, varied, pc, idx, history, current_price, signals, score,
                   barometers, assets, success, file, exit_status, requests, memo>>

unit_calculate_ma ==
    /\ unit.fn = "calculate_ma"
    /\ Returned(calculate_ma(unit.history, unit.period))

unit_percentile_rank ==
    /\ unit.fn = "percentile_rank"
    /\ Returned(percentile_rank(unit.value, unit.historical_values))

unit_fetch_yahoo_history ==
    /\ unit.fn = "fetch_yahoo_history"
    /\ Returned(fetch_yahoo_history(unit.response))

(***************************************************************************)
(* The specification.                                                      *)
(***************************************************************************)
Init ==
    /\ \/ /\ script = "risk_barometer"
          /\ varied \in {BAROMETERS[i] : i \in 1..Len(BAROMETERS)} \cup SharedSymbols \cup {"-"}
          /\ unit = [fn |-> "-"]
       \/ script = "market_data" /\ varied = "-" /\ unit = [fn |-> "-"]
       \/ script = "unit" /\ varied = "-" /\ unit \in UnitCalls
    /\ pc = "main"
    /\ idx = 1
    /\ history = <<>>
    /\ current_price = 0
    /\ signals = <<>>
    /\ score = 0
    /\ barometers = <<>>
    /\ assets = <<>>
    /\ success = 0
    /\ file = <<>>
    /\ exit_status = 0
    /\ requests = <<>>
    /\ memo = [cache |-> <<>>, signals |-> <<>>, score |-> 0, barometers |-> <<>>]

Next ==
    \/ gold_enter \/ gold_cot \/ gold_real_yields \/ gold_ma \/ gold_dxy
    \/ gold_sentiment \/ gold_level
    \/ sp500_enter \/ sp500_vix \/ sp500_curve \/ sp500_ma \/ sp500_hedging
    \/ sp500_breadth \/ sp500_level
    \/ nasdaq_enter \/ nasdaq_vix \/ nasdaq_ma \/ nasdaq_rate \/ nasdaq_momentum
    \/ nasdaq_volatility \/ nasdaq_level
    \/ bitcoin_enter \/ bitcoin_ma \/ bitcoin_volatility \/ bitcoin_momentum
    \/ bitcoin_correlation \/ bitcoin_drawdown \/ bitcoin_level
    \/ main_except \/ main_write
    \/ market_fetch \/ market_write
    \/ unit_calculate_ma \/ unit_percentile_rank \/ unit_fetch_yahoo_history

Spec == Init /\ [][Next]_vars

(***************************************************************************)
(* Vocabulary of the properties.                                           *)
(***************************************************************************)
\* The entries of main's dict that carry a score, and all their signal records.
Scored == {i \in 1..Len(barometers) : "score" \in DOMAIN barometers[i].value}
SignalRecords ==
    {signals[j] : j \in 1..Len(signals)} \cup
    UNION {{barometers[i].value.signals[j] : j \in 1..Len(barometers[i].value.signals)} :
           i \in Scored}

\* The point budget of each class, in the order of its signals.
Budget ==
    [gold |-> <<30, 25, 15, 15, 15>>, sp500 |-> <<30, 25, 20, 15, 10>>,
     nasdaq |-> <<30, 25, 20, 15, 10>>, bitcoin |-> <<30, 25, 20, 15, 10>>]

\* The record of a signal whose computation raised.
IsFallback(sig) == StrPrefix(sig.detail, 18) = "Data unavailable: "

\* The requests issued for an entity, in order.
RequestsOf(entity) == SelectSeq(requests, LAMBDA r : r.entity = entity)

\* The class name in the error text of a failed baseline fetch.
ClassLabel == [gold |-> "gold", sp500 |-> "S&P 500", nasdaq |-> "Nasdaq", bitcoin |-> "Bitcoin"]

Recommendations ==
    [gold |-> GoldRecommendation, sp500 |-> Sp500Recommendation,
     nasdaq |-> NasdaqRecommendation, bitcoin |-> BitcoinRecommendation]

(***************************************************************************)
(* C1.  A result that carries a score has exactly 5 signal records whose   *)
(* maxPoints are, in order, the budget of its class; they sum to 100.      *)
(***************************************************************************)
C1_FiveSignalsFixedBudget ==
    \A i \in Scored :
        LET sigs == barometers[i].value.signals
        IN  /\ Len(sigs) = 5
            /\ [j \in 1..5 |-> sigs[j].maxPoints] = Budget[barometers[i].key]
            /\ SumSeq([j \in 1..5 |-> sigs[j].maxPoints]) = 100

\* A scored result in which one signal failed and another triggered.
C1_Witness ==
    \E i \in Scored :
        LET sigs == barometers[i].value.signals
        IN  /\ \E j \in 1..Len(sigs) : IsFallback(sigs[j])
            /\ \E j \in 1..Len(sigs) : sigs[j].triggered = "True"

(***************************************************************************)
(* C2.  In a result that carries a score, score is the sum of the points   *)
(* of its signal records, and lies in 0..100.                              *)
(***************************************************************************)
C2_ScoreIsSumOfPoints ==
    \A i \in Scored :
        LET r == barometers[i].value
        IN  /\ r.score = SumSeq([j \in 1..Len(r.signals) |-> r.signals[j].points])
            /\ r.score >= 0
            /\ r.score <= 100

\* A scored result with two triggered signals and a failed one.
C2_Witness ==
    \E i \in Scored :
        LET r == barometers[i].value
        IN  /\ Cardinality({j \in 1..Len(r.signals) : r.signals[j].points > 0}) >= 2
            /\ \E j \in 1..Len(r.signals) : IsFallback(r.signals[j])
            /\ r.score > 0

(***************************************************************************)
(* C3.  The level of a result is LOW iff score <= 30, CAUTION iff          *)
(* 31 <= score <= 50, WARNING iff 51 <= score <= 70, DANGER iff            *)
(* score >= 71, and the recommendation is the class's string for it.       *)
(***************************************************************************)
C3_LevelBreakpoints ==
    \A i \in Scored :
        LET r == barometers[i].value
        IN  /\ r.level = "LOW" <=> r.score <= 30
            /\ r.level = "CAUTION" <=> (31 <= r.score /\ r.score <= 50)
            /\ r.level = "WARNING" <=> (51 <= r.score /\ r.score <= 70)
            /\ r.level = "DANGER" <=> r.score >= 71
            /\ r.level \in {"LOW", "CAUTION", "WARNING", "DANGER"}
            /\ r.recommendation = Recommendations[barometers[i].key][r.level]

\* A result on a breakpoint: score 50, reported as CAUTION.
C3_Witness ==
    \E i \in Scored : barometers[i].value.score = 50 /\ barometers[i].value.level = "CAUTION"

(***************************************************************************)
(* C4.  A step that evaluates one signal always moves on to the next       *)
(* signal (nothing is propagated to the caller), leaves the records of the *)
(* earlier signals as they were and appends one record.  When a request of *)
(* the step raised, the record is a fallback; a fallback (any exception of *)
(* the step) has triggered = False and points = 0, and leaves score as it  *)
(* was.                                                                    *)
(***************************************************************************)
C4_SignalFailureIsolated ==
    [][\A k \in 1..5 :
          pc = "signal" \o ToString(k) =>
            /\ pc' = (IF k = 5 THEN "level" ELSE "signal" \o ToString(k + 1))
            /\ Len(signals') = k
            /\ SubSeq(signals', 1, k - 1) = signals
            /\ barometers' = barometers
            /\ (\E n \in (Len(requests) + 1)..Len(requests') : requests'[n].raised)
                 => IsFallback(signals'[k])
            /\ IsFallback(signals'[k]) =>
                 /\ signals'[k].triggered = "False"
                 /\ signals'[k].points = 0
                 /\ score' = score]_vars

\* A result whose second signal failed on a request that raised, while the
\* signals before and after it triggered.
C4_Witness ==
    \E i \in Scored :
        LET sigs == barometers[i].value.signals
        IN  /\ IsFallback(sigs[2])
            /\ sigs[1].triggered = "True"
            /\ sigs[3].triggered = "True"
            /\ \E n \in 1..Len(requests) :
                   requests[n].entity = barometers[i].key /\ requests[n].raised

(***************************************************************************)
(* C5.  When the first request of a class (its baseline series) raised or  *)
(* returned no point, the entry of the class is a mapping with the single  *)
(* key error, whose text starts with 'Failed to fetch <class> data: ', and *)
(* no further request was issued for the class.                            *)
(***************************************************************************)
C5_BaselineFailure ==
    script = "risk_barometer" =>
    \A c \in DOMAIN ClassLabel :
        LET rs == RequestsOf(c)
            prefix == "Failed to fetch " \o ClassLabel[c] \o " data: "
        IN  (rs # <<>> /\ (rs[1].raised \/ rs[1].n = 0)) =>
              /\ Len(rs) = 1
              /\ \E i \in 1..Len(barometers) :
                    /\ barometers[i].key = c
                    /\ DOMAIN barometers[i].value = {"error"}
                    /\ StrPrefix(barometers[i].value.error, Len(prefix)) = prefix

\* Both cases in one run: a class whose baseline request raised and a class
\* whose baseline request returned an empty series.
C5_Witness ==
    /\ \E n \in 1..Len(requests) : requests[n].raised /\ requests[n].range = "1y"
    /\ \E n \in 1..Len(requests) :
          /\ ~requests[n].raised
          /\ requests[n].n = 0
          /\ requests[n].range = "1y"
          /\ RequestsOf(requests[n].entity)[1] = requests[n]
    /\ pc = "exited"

(***************************************************************************)
(* C6.  A process that has ended has status 1 when every entity of its run *)
(* ended in an error record, and status 0 when at least one succeeded.     *)
(* fetch_market_data.py does this; fetch_risk_barometer.py counts nothing  *)
(* and ends with status 0 also when all four classes failed.               *)
(***************************************************************************)
EveryEntityFailed ==
    IF script = "risk_barometer"
    THEN \A i \in 1..Len(barometers) : "error" \in DOMAIN barometers[i].value
    ELSE \A i \in 1..Len(assets) : "error" \in DOMAIN assets[i].value

C6_ExitStatus ==
    pc = "exited" => exit_status = (IF EveryEntityFailed THEN 1 ELSE 0)

(***************************************************************************)
(* C7.  The loop stores one entry per entity it has passed, in the fixed   *)
(* order, whatever the earlier entries are.  The document written has      *)
(* exactly one entry per entity, each a result or an error record; every   *)
(* entity was                                                              *)
(* evaluated (its first request was issued, unless its call raised), and   *)
(* in a run of ordinary days the result of a class is the same whichever   *)
(* other classes failed.                                                   *)
(***************************************************************************)
IsBarometerEntry(v) ==
    \/ DOMAIN v = {"error"}
    \/ DOMAIN v = {"score", "level", "signals", "recommendation"}

IsAssetEntry(v) ==
    \/ v = [error |-> TRUE]
    \/ DOMAIN v = {"price", "prevClose", "dailyChange", "dailyChangePct", "weekChangePct",
                   "sparkData", "high", "low"}

C7_OneEntryPerEntity ==
    /\ script = "risk_barometer" =>
          /\ Len(barometers) = idx - 1
          /\ \A i \in 1..Len(barometers) : barometers[i].key = BAROMETERS[i]
    /\ script = "market_data" =>
          /\ Len(assets) = idx - 1
          /\ \A i \in 1..Len(assets) : assets[i].key = SYMBOLS[i]
    /\ pc = "exited" /\ script = "risk_barometer" =>
          /\ [i \in 1..Len(file.barometers) |-> file.barometers[i].key] = BAROMETERS
          /\ \A i \in 1..4 :
                /\ IsBarometerEntry(file.barometers[i].value)
                /\ \/ file.barometers[i].value = [error |-> Uncaught]
                   \/ RequestsOf(BAROMETERS[i]) # <<>>
                /\ (varied = "-" /\ "score" \in DOMAIN file.barometers[i].value) =>
                      /\ file.barometers[i].value.score = 0
                      /\ file.barometers[i].value.level = "LOW"
                      /\ Len(file.barometers[i].value.signals) = 5
    /\ pc = "exited" /\ script = "market_data" =>
          /\ [i \in 1..Len(file.assets) |-> file.assets[i].key] = SYMBOLS
          /\ \A i \in 1..9 :
                /\ IsAssetEntry(file.assets[i].value)
                /\ RequestsOf(SYMBOLS[i]) # <<>>

\* A report whose first and third class failed (one by a failed baseline
\* request, one by an exception leaving its function) and whose second and
\* fourth class have a result.
C7_Witness ==
    /\ pc = "exited"
    /\ script = "risk_barometer"
    /\ "error" \in DOMAIN file.barometers[1].value
    /\ "score" \in DOMAIN file.barometers[2].value
    /\ file.barometers[3].value = [error |-> Uncaught]
    /\ "score" \in DOMAIN file.barometers[4].value
    /\ file.barometers[1].value # [error |-> Uncaught]

(***************************************************************************)
(* C8.  As claimed: the detail of a fallback record has at most 50         *)
(* characters.  The code cuts the exception message, not the detail.       *)
(***************************************************************************)
C8_DetailAtMost50 ==
    \A sig \in SignalRecords : IsFallback(sig) => Len(sig.detail) <= 50

(***************************************************************************)
(* C8, amended.  The detail of a fallback record is 'Data unavailable: '   *)
(* followed by at most 50 characters, so it has at most 68 characters.     *)
(***************************************************************************)
C8_MessageAtMost50 ==
    \A sig \in SignalRecords :
        IsFallback(sig) =>
            /\ Len(sig.detail) - Len("Data unavailable: ") <= 50
            /\ Len(sig.detail) <= 68

\* A fallback record whose message was cut: the request failed with more than
\* 50 characters and the detail has exactly 68.
C8_Witness ==
    /\ \E sig \in SignalRecords : IsFallback(sig) /\ Len(sig.detail) = 68
    /\ Len(LongError(MaxOver)) > 50

(***************************************************************************)
(* C9.  In every signal record the triggered field is a boolean.  The gold *)
(* COT-proxy record carries None (empty weekly population) or 0.0          *)
(* (percentile rank 0) instead.                                            *)
(***************************************************************************)
C9_TriggeredIsBoolean ==
    \A sig \in SignalRecords : sig.triggered \in {"True", "False"}

(***************************************************************************)
(* C10.  In every signal record points is 0 or maxPoints, and it is        *)
(* maxPoints exactly when triggered is True.                               *)
(***************************************************************************)
C10_BinaryAward ==
    \A sig \in SignalRecords :
        /\ sig.points \in {0, sig.maxPoints}
        /\ sig.maxPoints > 0
        /\ sig.points = sig.maxPoints <=> sig.triggered = "True"

\* A result with a triggered record holding its full points and a record
\* whose triggered value is not True holding none.
C10_Witness ==
    \E i \in Scored :
        LET sigs == barometers[i].value.signals
        IN  /\ \E j \in 1..5 : sigs[j].triggered = "True" /\ sigs[j].points = sigs[j].maxPoints
            /\ \E j \in 1..5 : sigs[j].triggered \in {"None", "0.0"} /\ sigs[j].points = 0
            /\ \E j \in 1..5 : sigs[j].triggered = "False" /\ sigs[j].points = 0

(***************************************************************************)
(* C11.  calculate_ma returns None for a series with fewer than period     *)
(* points and otherwise the mean of its last period closes (ret * period   *)
(* is their sum).  In a scored result whose series was shorter than the    *)
(* period of its MA signal (gold 50, S&P 500 / Nasdaq / bitcoin 200 on the *)
(* baseline series, gold's DXY signal 200 on the DXY series), the record   *)
(* of that signal is the fallback with points 0; its detail is the         *)
(* 'Insufficient ...' message, except for an empty DXY series, whose       *)
(* fallback carries the IndexError of dxy_history[-1].                     *)
(***************************************************************************)
MaSlot == [gold |-> 3, sp500 |-> 3, nasdaq |-> 2, bitcoin |-> 1]
MaPeriod == [gold |-> 50, sp500 |-> 200, nasdaq |-> 200, bitcoin |-> 200]
MaInsufficient ==
    [gold |-> "Data unavailable: Insufficient history for MA",
     sp500 |-> "Data unavailable: Insufficient history",
     nasdaq |-> "Data unavailable: Insufficient history",
     bitcoin |-> "Data unavailable: Insufficient history"]

RECURSIVE SumCloses(_, _)
\* the sum of the last k closes of a series
SumCloses(h, k) ==
    IF k = 0 THEN 0 ELSE h[Len(h) - k + 1][2] + SumCloses(h, k - 1)

C12_PercentileRank ==
    (script = "unit" /\ unit.fn = "percentile_rank" /\ unit.done) =>
        LET xs == unit.historical_values
        IN  IF xs = <<>> \/ unit.value = None
            THEN unit.ret = None
            ELSE LET v == unit.value[1]
                     below == Len(SelectSeq(xs, LAMBDA x : x < v))
                     ties == Len(SelectSeq(xs, LAMBDA x : x = v))
                     above == Len(SelectSeq(xs, LAMBDA x : x > v))
                 IN  /\ unit.ret # None
                     /\ unit.ret[1].n * Len(xs) = 100 * below * unit.ret[1].d
                     /\ unit.ret[1].n * Len(xs)
                          = 100 * (Len(xs) - ties - above) * unit.ret[1].d
                     /\ (\A i \in 1..Len(xs) : v <= xs[i]) => unit.ret[1].n = 0

\* A call whose value ties with a member, with a member below and a member
\* above it: the rank counts one member of three.
C12_Witness ==
    /\ script = "unit"
    /\ unit.fn = "percentile_rank"
    /\ unit.done
    /\ unit.value = Some(2)
    /\ unit.historical_values = <<3, 2, 1>>
    /\ unit.ret = Some(Rat(100, 3))

(***************************************************************************)
(* C13.  Once gold's third signal is evaluated, its record is triggered    *)
(* with 15 points exactly when the series has at least 50 points and the   *)
(* latest close is strictly more than 10% above the mean of the last 50    *)
(* closes (500 * close > 11 * their sum); otherwise it has 0 points.  The  *)
(* 300-point series at 2000 that ends at 2300 triggers it.                 *)
(***************************************************************************)
GoldPastMa ==
    /\ script = "risk_barometer"
    /\ pc \in {"signal4", "signal5", "level"}
    /\ BAROMETERS[idx] = "gold"

C13_GoldMaOverextension ==
    GoldPastMa =>
        LET latest == history[Len(history)][2]
            over == /\ Len(history) >= 50
                    /\ 10 * 50 * latest > 11 * SumCloses(history, 50)
        IN  /\ latest = current_price
            /\ signals[3].maxPoints = 15
            /\ over <=> signals[3].triggered = "True"
            /\ over <=> signals[3].points = 15
            /\ over <=> signals[3].name = "MA Overextension" /\ signals[3].points # 0
            /\ ~over => signals[3].points = 0 /\ signals[3].triggered = "False"
            /\ (history = fetch_yahoo_history(Return(Gold300)).val) =>
                  signals[3].triggered = "True" /\ signals[3].points = 15

\* The 300-point series flat at 2000 with a last close of 2300: triggered, 15
\* points, and the score holds them.
C13_Witness ==
    /\ GoldPastMa
    /\ Len(history) = 300
    /\ \A i \in 1..299 : history[i][2] = 2000
    /\ current_price = 2300
    /\ signals[3] = Signal("MA Overextension", "True", 15, 15,
                           "{deviation_pct:+.1f}% above 50-day MA")
    /\ score >= 15

(***************************************************************************)
(* C14.  Once bitcoin's fifth signal is evaluated, its record is triggered *)
(* with 10 points exactly when the latest close is strictly more than 30%  *)
(* below the highest close of the series (10 * close < 7 * highest); a     *)
(* latest close exactly 30% below the highest gives a normal record that   *)
(* is not triggered and has 0 points.                                      *)
(***************************************************************************)
BitcoinPastDrawdown ==
    /\ script = "risk_barometer"
    /\ pc = "level"
    /\ BAROMETERS[idx] = "bitcoin"

HighestClose(h) ==
    CHOOSE c \in {h[i][2] : i \in 1..Len(h)} : \A i \in 1..Len(h) : h[i][2] <= c

C14_BitcoinDrawdown ==
    BitcoinPastDrawdown =>
        LET latest == history[Len(history)][2]
            highest == HighestClose(history)
            deeper == 10 * latest < 7 * highest
        IN  /\ latest = current_price
            /\ signals[5].maxPoints = 10
            /\ deeper <=> signals[5].triggered = "True"
            /\ deeper <=> signals[5].points = 10
            /\ ~deeper => signals[5].points = 0 /\ signals[5].triggered = "False"
            /\ (highest > 0 /\ 10 * latest = 7 * highest) =>
                  signals[5] = Signal("Drawdown from ATH", "False", 0, 10,
                                      "{drawdown_pct:.1f}% from all-time high")

\* A series whose highest close is 100 and whose latest close is 70: a
\* drawdown of exactly 30%, reported as not triggered.
C14_Witness ==
    /\ BitcoinPastDrawdown
    /\ HighestClose(history) = 100
    /\ current_price = 70
    /\ signals[5].name = "Drawdown from ATH"
    /\ signals[5].triggered = "False"
    /\ signals[5].points = 0

(***************************************************************************)
(* Vocabulary of C15: the pairs of a response, by position, whose close is *)
(* not null; a series in ascending order of timestamp.                     *)
(***************************************************************************)
RECURSIVE PairsFrom(_, _, _)
PairsFrom(ts, cs, i) ==
    IF i > Len(ts) \/ i > Len(cs) THEN <<>>
    ELSE (IF cs[i] = None THEN <<>> ELSE << <<ts[i], cs[i][1]>> >>) \o PairsFrom(ts, cs, i + 1)

Ascending(series) ==
    /\ \A i \in 1..Len(series) : series[i][1] # None
    /\ \A i, j \in 1..Len(series) : i < j => series[i][1][1] < series[j][1][1]

FetchReturned ==
    /\ script = "unit"
    /\ unit.fn = "fetch_yahoo_history"
    /\ unit.done
    /\ ~IsExc(unit.response)

(***************************************************************************)
(* C15.  As claimed: for every response whose arrays may contain nulls and *)
(* differ in length, fetch_yahoo_history returns exactly the pairs of the  *)
(* response whose close is not null, in ascending order of timestamp.  The *)
(* function filters on the close only: a null timestamp stays in the       *)
(* series.                                                                 *)
(***************************************************************************)
C15_PairsAscending ==
    FetchReturned =>
        /\ unit.ret = Return(PairsFrom(unit.response.val.timestamp,
                                       unit.response.val.close, 1))
        /\ Ascending(unit.ret.val)

(***************************************************************************)
(* C15, amended.  fetch_yahoo_history returns, in the order of the         *)
(* response, exactly the pairs (timestamp[i], close[i]), i within the      *)
(* shorter array, whose close is not null; nothing is sorted and no        *)
(* timestamp is filtered, so the series is in ascending order of timestamp *)
(* when the timestamps it pairs are not null.  A request that raised       *)
(* raises out of the call.                                                 *)
(***************************************************************************)
C15_PairsInResponseOrder ==
    /\ FetchReturned =>
          LET ts == unit.response.val.timestamp
              cs == unit.response.val.close
              paired == {i \in 1..Len(ts) : i <= Len(cs) /\ cs[i] # None}
          IN  /\ unit.ret = Return(PairsFrom(ts, cs, 1))
              /\ Len(unit.ret.val) = Cardinality(paired)
              /\ (\A i \in paired : ts[i] # None) => Ascending(unit.ret.val)
              /\ (\E i \in paired : ts[i] = None) => ~Ascending(unit.ret.val)
    /\ (script = "unit" /\ unit.fn = "fetch_yahoo_history" /\ unit.done
        /\ IsExc(unit.response)) => unit.ret = unit.response

\* A response with three timestamps, the first null, and two closes, the
\* second null: the series is the one pair of the null timestamp.
C15_Witness ==
    /\ FetchReturned
    /\ unit.response.val.timestamp = <<None, Some(1), Some(2)>>
    /\ unit.response.val.close = <<Some(2), None>>
    /\ unit.ret = Return(<< <<None, 2>> >>)

(***************************************************************************)
(* Vocabulary of C16: the endpoint answered alike, in this run, all the    *)
(* requests for the same (symbol, range); the first request of each class. *)
(***************************************************************************)
Consistent ==
    \A i, j \in 1..Len(requests) :
        (requests[i].symbol = requests[j].symbol /\ requests[i].range = requests[j].range)
            => requests[i].response = requests[j].response

BaselineSymbol ==
    [gold |-> "GC=F", sp500 |-> "^GSPC", nasdaq |-> "^IXIC", bitcoin |-> "BTC-USD"]

\* The three ^VIX 1mo requests of the Hedging-Surge signal were all issued.
HedgingFetchedThrice ==
    Len(SelectSeq(requests, LAMBDA r : r.entity = "sp500" /\ r.symbol = "^VIX"
                                       /\ r.range = "1mo" /\ ~r.raised)) = 3

(***************************************************************************)
(* C16.  As claimed: whatever the endpoint answers, the barometer results  *)
(* of the run are those of the run with fetch_yahoo_history memoized on    *)
(* (symbol, range).                                                        *)
(***************************************************************************)
C16_MemoizedSame ==
    script = "risk_barometer" => barometers = memo.barometers

(***************************************************************************)
(* C16, amended.  When the endpoint answered alike all the requests of the *)
(* run for the same (symbol, range), the signals, the score and the        *)
(* barometer results are those of the memoized run, the Hedging-Surge      *)
(* signal included; and no class finds its own 1y series kept by an        *)
(* earlier class.                                                          *)
(***************************************************************************)
C16_MemoizedSameWhenConsistent ==
    script = "risk_barometer" =>
        /\ Consistent =>
              /\ barometers = memo.barometers
              /\ signals = memo.signals
              /\ score = memo.score
        /\ (pc = "main" /\ idx <= Len(BAROMETERS)) =>
              Hit(memo.cache, BaselineSymbol[BAROMETERS[idx]], "1y") = {}

\* A finished run of consistent answers in which Hedging Surge issued its three
\* requests and the memoized run kept one series for them.
C16_Witness ==
    /\ script = "risk_barometer"
    /\ idx > Len(BAROMETERS)
    /\ Consistent
    /\ HedgingFetchedThrice
    /\ Cardinality(Hit(memo.cache, "^VIX", "1mo")) = 1
    /\ Len(memo.cache) < Len(requests)
    /\ barometers = memo.barometers
    /\ \E i \in Scored : barometers[i].key = "sp500"

(***************************************************************************)
(* Vocabulary of C17: the most requests one evaluation of each class may   *)
(* issue, and the outcome main stored for a class.                         *)
(***************************************************************************)
RequestCap == [gold |-> 4, sp500 |-> 8, nasdaq |-> 3, bitcoin |-> 2]

Position(entity) == CHOOSE i \in 1..Len(BAROMETERS) : BAROMETERS[i] = entity

Stored(entity) == {i \in 1..Len(barometers) : barometers[i].key = entity}

BaselineFailed(entity) ==
    \E i \in Stored(entity) :
        /\ "error" \in DOMAIN barometers[i].value
        /\ StrPrefix(barometers[i].value.error, 15) = "Failed to fetch"

RequestsInOrder ==
    /\ \A e \in DOMAIN RequestCap :
          LET issued == RequestsOf(e)
          IN  /\ Len(issued) <= RequestCap[e]
              /\ (issued # <<>> /\ issued[1].raised) =>
                    (Len(issued) = 1 /\ BaselineFailed(e))
              /\ BaselineFailed(e) => Len(issued) = 1
              \* a scored class made every one of its calls, one request each
              /\ (\E i \in Stored(e) : i \in Scored) =>
                    Len(issued) >= (IF e = "sp500" THEN 5 ELSE RequestCap[e])
    \* a request that failed is not issued again
    /\ \A i, j \in 1..Len(requests) :
          (i < j /\ requests[i].raised /\ requests[i].entity = requests[j].entity)
              => ~(requests[i].symbol = requests[j].symbol
                   /\ requests[i].range = requests[j].range)
    \* the classes are evaluated one after another
    /\ \A i, j \in 1..Len(requests) :
          i < j => Position(requests[i].entity) <= Position(requests[j].entity)
    /\ Len(requests) <= 17

\* The control flow of the scripts, data left out: from each position that is
\* not the exit, the position the one thread of the script moves to.  main's
\* loop enters a function or stores its failure; a function runs its five
\* try blocks and its level, and returns to the loop; after the loop main
\* writes the file and the process exits.
ctl == <<pc, idx, unit>>

Advance ==
    \/ /\ script = "risk_barometer"
       /\ unit' = unit
       /\ \/ pc = "main" /\ idx <= Len(BAROMETERS) /\ pc' = "signal1" /\ idx' = idx
          \/ pc = "main" /\ idx <= Len(BAROMETERS) /\ pc' = "main" /\ idx' = idx + 1
          \/ \E k \in 1..4 : pc = "signal" \o ToString(k)
                             /\ pc' = "signal" \o ToString(k + 1) /\ idx' = idx
          \/ pc = "signal5" /\ pc' = "level" /\ idx' = idx
          \/ pc = "level" /\ pc' = "main" /\ idx' = idx + 1
          \/ pc = "main" /\ idx = Len(BAROMETERS) + 1 /\ pc' = "exited" /\ idx' = idx
    \/ /\ script = "market_data"
       /\ unit' = unit
       /\ \/ pc = "main" /\ idx <= Len(SYMBOLS) /\ pc' = "main" /\ idx' = idx + 1
          \/ pc = "main" /\ idx = Len(SYMBOLS) + 1 /\ pc' = "exited" /\ idx' = idx
    \/ unit_calculate_ma \/ unit_percentile_rank \/ unit_fetch_yahoo_history

\* The thread is never suspended for ever: it has no lock, no wait and no
\* other thread to yield to, so a step that is possible is taken.
FairSpec == Spec /\ WF_ctl(Advance)

(***************************************************************************)
(* C17.  Each call of fetch_yahoo_history issues one request and a failed  *)
(* request is not issued again: an evaluation whose baseline fetch failed  *)
(* issued exactly 1 request, the others at most 4 (gold), 8 (S&P 500),     *)
(* 3 (Nasdaq) and 2 (bitcoin); the run issues at most 17 requests, each    *)
(* appended to those before it, class after class, and then it exits.      *)
(***************************************************************************)
C17_RequestsBoundedAndTerminates ==
    /\ [](script = "risk_barometer" => RequestsInOrder)
    /\ [][script = "risk_barometer" =>
             /\ Len(requests') >= Len(requests)
             /\ SubSeq(requests', 1, Len(requests)) = requests]_vars
    /\ [][Advance]_vars
    /\ <>(script = "risk_barometer" => (pc = "exited" /\ Len(requests) <= 17))

\* A run that exited after all 17 requests, the three of Hedging Surge
\* included.
C17_Witness ==
    /\ script = "risk_barometer"
    /\ pc = "exited"
    /\ Len(requests) = 17
    /\ \A e \in DOMAIN RequestCap : Len(RequestsOf(e)) = RequestCap[e]

(***************************************************************************)
(* Vocabulary of C18: the ^TNX 3mo requests of a class that returned a     *)
(* series of fewer than 28 points, and the class being past a signal.      *)
(***************************************************************************)
ShortTnx(entity) ==
    {i \in 1..Len(requests) :
        /\ requests[i].entity = entity
        /\ requests[i].symbol = "^TNX" /\ requests[i].range = "3mo"
        /\ ~requests[i].raised
        /\ requests[i].n < 28}

Past(entity, k) ==
    /\ script = "risk_barometer"
    /\ pc \in {"signal" \o ToString(j) : j \in (k + 1)..5} \cup {"level"}
    /\ BAROMETERS[idx] = entity

RateSurgeUntriggered ==
    Signal("Rate Surge", "False", 0, 20, "4-week yield change: {yield_change:+.0f}bps")

(***************************************************************************)
(* C18.  As claimed: on a ^TNX 3mo series fetched with fewer than 28       *)
(* points, gold's Real-Yields signal is the fallback record and Nasdaq's   *)
(* Rate-Surge signal is the normal record, not triggered; both have 0      *)
(* points.  A series without any point is such a series, and on it         *)
(* tnx_history[-1] raises in the Nasdaq block.                             *)
(***************************************************************************)
C18_ShortYieldSeries ==
    /\ (Past("gold", 2) /\ ShortTnx("gold") # {}) =>
          /\ IsFallback(signals[2])
          /\ signals[2].points = 0
    /\ (Past("nasdaq", 3) /\ ShortTnx("nasdaq") # {}) =>
          signals[3] = RateSurgeUntriggered

(***************************************************************************)
(* C18, amended.  On a ^TNX 3mo series fetched with fewer than 28 points,  *)
(* gold's Real-Yields signal is the fallback record 'Insufficient yield    *)
(* data'.  Nasdaq's Rate-Surge signal is, when the series has at least one *)
(* point, the normal record with a change of 0 bps, not triggered, and     *)
(* when it has none the fallback record of the IndexError.  In all three   *)
(* cases the record has 0 points and is not triggered.                     *)
(***************************************************************************)
C18_ShortYieldSeriesWithAPoint ==
    /\ (Past("gold", 2) /\ ShortTnx("gold") # {}) =>
          signals[2] = Fallback("Real Yields", 25, "Insufficient yield data")
    /\ (Past("nasdaq", 3) /\ ShortTnx("nasdaq") # {}) =>
          \A i \in ShortTnx("nasdaq") :
              LET tnx_history == fetch_yahoo_history(requests[i].response).val
              IN  IF tnx_history # <<>>
                  THEN /\ signals[3] = RateSurgeUntriggered
                       /\ RIsZero(nasdaq_yield_change(tnx_history,
                                                      tnx_history[Len(tnx_history)]))
                  ELSE signals[3] = Fallback("Rate Sensitivity", 20, IndexError)
    /\ \A c \in {<<"gold", 2>>, <<"nasdaq", 3>>} :
          (Past(c[1], c[2]) /\ ShortTnx(c[1]) # {}) =>
              signals[c[2]].points = 0 /\ signals[c[2]].triggered = "False"

\* Nasdaq past its third signal on a series of 10 points that rose by 60 bps,
\* the series on which gold's stored second signal is the fallback.
C18_Witness ==
    /\ Past("nasdaq", 3)
    /\ \E i \in ShortTnx("nasdaq"), j \in ShortTnx("gold") :
          /\ requests[i].n = 10
          /\ requests[i].response = requests[j].response
    /\ signals[3] = RateSurgeUntriggered
    /\ \E i \in Scored :
          /\ barometers[i].key = "gold"
          /\ barometers[i].value.signals[2] =
                Fallback("Real Yields", 25, "Insufficient yield data")

=============================================================================
